---------------------------- MODULE Spec2Model ----------------------------
(***************************************************************************)
(* A model of app.py, the Netflix analytics dashboard: load_data (the CSV  *)
(* normalisation), the choice of the time base, the base subset and the    *)
(* option lists of the sidebar, the filter application, the Top Genre KPI  *)
(* and the genre aggregation of the Overview tab.                          *)
(*                                                                         *)
(* One run of the script is one behaviour: the script is single-threaded   *)
(* and runs top to bottom, the widgets returning the user's choices.  A    *)
(* raised exception ends the run (pc = "crashed", err names it).           *)
(*                                                                         *)
(* Text is a sequence of one-character strings (a month name is kept as    *)
(* one lexeme).  A cell that may be missing (NaN, NaT, pd.NA) is a         *)
(* sequence of length at most one: <<>> is the missing value, <<v>> holds  *)
(* v.                                                                      *)
(***************************************************************************)
EXTENDS Integers, Sequences, FiniteSets, TLC

VARIABLES
    raw,            \* the frame pd.read_csv returns: [cols, rows]
    df,             \* the frame load_data returns (a sequence of rows)
    pc,             \* the position of the script
    err,            \* the exception that ended the run and its line
    use_year_added, \* line 102
    ymin, ymax,     \* the slider's range
    year_range,     \* the slider's value <<lo, hi>>
    types,          \* the Type options
    type_sel,       \* the Type selection
    base,           \* the base subset: row numbers of df, in order
    country_counts, \* value_counts of the exploded country_list of base
    country_sel,
    genre_counts,   \* value_counts of the exploded genre_list of base
    genre_options,
    genre_sel,
    rating_options,
    rating_sel,
    query,          \* the Search text
    f,              \* the final subset: row numbers of df, in order
    f_columns,      \* whether f still has df's columns
    top_genre,      \* the Top Genre KPI: <<>> until computed, then <<text>>
    gcounts         \* the Overview tab's genre aggregation

vars == <<raw, df, pc, err, use_year_added, ymin, ymax, year_range, types,
          type_sel, base, country_counts, country_sel, genre_counts,
          genre_options, genre_sel, rating_options, rating_sel, query, f,
          f_columns, top_genre, gcounts>>

(***************************************************************************)
(* Bounds of the model.                                                    *)
(***************************************************************************)
\* The most rows of an input table.
MaxRows == 2
\* The most options the user ticks in one multiselect.
MaxSel == 1

(***************************************************************************)
(* Text.                                                                   *)
(***************************************************************************)
Digits == {"0", "1", "2", "3", "4", "5", "6", "7", "8", "9"}

DigitVal(c) ==
    CASE c = "0" -> 0 [] c = "1" -> 1 [] c = "2" -> 2 [] c = "3" -> 3
      [] c = "4" -> 4 [] c = "5" -> 5 [] c = "6" -> 6 [] c = "7" -> 7
      [] c = "8" -> 8 [] c = "9" -> 9

\* int() of a run of digits.
RECURSIVE DigitsToInt(_)
DigitsToInt(t) ==
    IF t = <<>> THEN 0
    ELSE 10 * DigitsToInt(SubSeq(t, 1, Len(t) - 1)) + DigitVal(t[Len(t)])

\* The end of the run of characters of S that starts at i (i - 1 if none).
RECURSIVE RunEnd(_, _, _)
RunEnd(t, i, S) ==
    IF i <= Len(t) /\ t[i] \in S THEN RunEnd(t, i + 1, S) ELSE i - 1

\* str.strip(): leading and trailing white space removed.
RECURSIVE Strip(_)
Strip(t) ==
    IF t = <<>> THEN t
    ELSE IF Head(t) = " " THEN Strip(Tail(t))
    ELSE IF t[Len(t)] = " " THEN Strip(SubSeq(t, 1, Len(t) - 1))
    ELSE t

\* str.split(","): the pieces between the commas; "" splits to [""].
RECURSIVE Split(_)
Split(t) ==
    LET commas == {i \in DOMAIN t : t[i] = ","}
    IN  IF commas = {} THEN <<t>>
        ELSE LET i == CHOOSE j \in commas : \A k \in commas : j <= k
             IN  <<SubSeq(t, 1, i - 1)>> \o Split(SubSeq(t, i + 1, Len(t)))

LowerChar(c) ==
    CASE c = "A" -> "a" [] c = "B" -> "b" [] c = "U" -> "u" [] OTHER -> c

\* str.lower()
Lower(t) == [i \in DOMAIN t |-> LowerChar(t[i])]

\* The placeholder texts of load_data.
Unknown == <<"U", "n", "k", "n", "o", "w", "n">>
Empty == <<>>
\* str(x) of a missing cell, as astype(str) gives it.
NanText == <<"n", "a", "n">>

Range(s) == {s[i] : i \in DOMAIN s}


(***************************************************************************)
(* The input: the frame pd.read_csv returns.  cols is the set of columns   *)
(* of the file (their names already in the lower-case form of line 46);    *)
(* a row gives every column a cell, and the cell of a column the file      *)
(* lacks is never read.                                                    *)
(***************************************************************************)
AllCols == {"type", "title", "director", "cast", "country", "date_added",
            "release_year", "rating", "duration", "listed_in"}

NaN == <<>>
Cell(t) == <<t>>

Movie == <<"M", "o", "v", "i", "e">>
TVShow == <<"T", "V", " ", "S", "h", "o", "w">>
US == <<"U", "S">>
FR == <<"F", "R">>
Dramas == <<"D", "r", "a", "m", "a", "s">>
Kids == <<"K", "i", "d", "s">>
PG == <<"P", "G">>
RatedR == <<"R">>
Y2020 == <<"2", "0", "2", "0">>
Y2021 == <<"2", "0", "2", "1">>

RawRow(ty, ti, di, ca, co, da, ry, ra, du, li) ==
    [type |-> ty, title |-> ti, director |-> di, cast |-> ca, country |-> co,
     date_added |-> da, release_year |-> ry, rating |-> ra, duration |-> du,
     listed_in |-> li]

\* A film of two countries and two genres, added in September 2021.
RowFilm ==
    RawRow(Cell(Movie), Cell(<<"A", "b">>), NaN, NaN,
           Cell(US \o <<",", " ">> \o FR),
           Cell(<<"September", " ", "9", ",", " ">> \o Y2021),
           Cell(Y2020), Cell(PG), Cell(<<"9", "0", " ", "m", "i", "n">>),
           Cell(Dramas \o <<",", " ">> \o Kids))

\* A series whose country text ends in a comma, added in January 2020 (the
\* date text padded with blanks).
RowSeries ==
    RawRow(Cell(TVShow), Cell(<<"b">>), Cell(<<"A">>), NaN,
           Cell(US \o <<",">>),
           Cell(<<" ", "January", " ", "1", ",", " ">> \o Y2020 \o <<" ">>),
           Cell(Y2021), Cell(RatedR),
           Cell(<<"1", " ", "S", "e", "a", "s", "o", "n">>),
           Cell(Kids))

\* A row whose every cell is missing.
RowBlank == RawRow(NaN, NaN, NaN, NaN, NaN, NaN, NaN, NaN, NaN, NaN)

\* A film with an unparseable date, a duration without a number and no genre.
RowOdd ==
    RawRow(Cell(Movie), Cell(<<"a", ".">>), NaN, Cell(<<"A">>),
           Cell(FR), Cell(<<"s", "o", "o", "n">>),
           Cell(Y2021), Cell(PG), Cell(<<"m", "i", "n">>), NaN)

\* A film whose release year is a number with a fraction.
RowFraction ==
    [RowFilm EXCEPT !.release_year = Cell(Y2020 \o <<".", "5">>)]

\* A series whose release year is not a number, and without a genre.
RowWord ==
    [RowSeries EXCEPT !.release_year = Cell(<<"n", "/", "a">>),
                      !.listed_in = NaN]

RawRows == {RowFilm, RowSeries, RowBlank, RowOdd, RowFraction, RowWord}

RECURSIVE SeqsUpTo(_, _)
SeqsUpTo(S, n) ==
    IF n = 0 THEN {<<>>}
    ELSE LET shorter == SeqsUpTo(S, n - 1)
         IN  shorter \cup {Append(s, x) : s \in shorter, x \in S}

\* The files that lack one optional column, or both date columns.
ColumnChoices ==
    {AllCols \ {c} : c \in AllCols}
        \cup {AllCols \ {"date_added", "release_year"}}

(***************************************************************************)
(* load_data                                                               *)
(***************************************************************************)
Months == {"January", "September"}
MonthNum(m) == CASE m = "January" -> 1 [] m = "September" -> 9

\* pd.to_datetime(..., errors="coerce") of one text in the file's format,
\* "<Month> <day>, <year>": <<[year, month]>>, or <<>> (NaT).
ParseDate(t) ==
    IF Len(t) >= 6 /\ t[1] \in Months /\ t[2] = " " /\ t[3] \in Digits
    THEN LET d == RunEnd(t, 3, Digits)
         IN  IF /\ d + 6 = Len(t)
                /\ t[d + 1] = "," /\ t[d + 2] = " "
                /\ RunEnd(t, d + 3, Digits) = Len(t)
                /\ DigitsToInt(SubSeq(t, 3, d)) \in 1..31
             THEN <<[year |-> DigitsToInt(SubSeq(t, d + 3, Len(t))),
                     month |-> MonthNum(t[1])]>>
             ELSE <<>>
    ELSE <<>>

\* df["date_added"].astype(str).str.strip(), then to_datetime.
DateOf(cell) == ParseDate(Strip(IF cell = NaN THEN NanText ELSE cell[1]))

\* pd.to_numeric(..., errors="coerce") of one cell: <<>> (NaN), or
\* <<[int, frac]>>, the number's integer part and whether it has a fraction.
ToNumeric(cell) ==
    IF cell = NaN THEN <<>>
    ELSE LET t == cell[1]
             d == RunEnd(t, 1, Digits)
         IN  IF d = 0 THEN <<>>
             ELSE IF d = Len(t)
             THEN <<[int |-> DigitsToInt(t), frac |-> FALSE]>>
             ELSE IF t[d + 1] = "." /\ RunEnd(t, d + 2, Digits) = Len(t)
             THEN <<[int |-> DigitsToInt(SubSeq(t, 1, d)),
                     frac |-> \E i \in (d + 2)..Len(t) : t[i] # "0"]>>
             ELSE <<>>

\* .astype("Int64") of the column: a value with a fraction cannot be cast
\* ("cannot safely cast non-equivalent float64 to int64").
Int64Raises(rows) ==
    \E i \in DOMAIN rows :
        LET n == ToNumeric(rows[i].release_year)
        IN  n # <<>> /\ n[1].frac

ReleaseYearOf(cell) ==
    LET n == ToNumeric(cell) IN IF n = <<>> THEN <<>> ELSE <<n[1].int>>

\* fillna(v)
FillNa(cell, v) == IF cell = NaN THEN v ELSE cell[1]

\* [i.strip() for i in str(x).split(",")]
SplitTrim(t) == LET parts == Split(t) IN [i \in DOMAIN parts |-> Strip(parts[i])]

\* The lambda of df["country_list"], applied to the filled country.
CountryListOf(cell) == IF cell # NaN THEN SplitTrim(cell[1]) ELSE <<Unknown>>

\* The lambda of df["genre_list"], applied to the filled listed_in.
GenreListOf(cell) == IF cell # NaN THEN SplitTrim(cell[1]) ELSE <<>>

\* str.extract(r"(\d+)\s*<word>"): the number of the first match, or <<>>.
ExtractInt(t, word) ==
    LET Ends(i) == RunEnd(t, RunEnd(t, i, Digits) + 1, {" "})
        Hits == {i \in DOMAIN t :
                    /\ t[i] \in Digits
                    /\ Ends(i) + Len(word) <= Len(t)
                    /\ SubSeq(t, Ends(i) + 1, Ends(i) + Len(word)) = word}
    IN  IF Hits = {} THEN <<>>
        ELSE LET i == CHOOSE j \in Hits : \A k \in Hits : j <= k
             IN  <<DigitsToInt(SubSeq(t, i, RunEnd(t, i, Digits)))>>

MinWord == <<"m", "i", "n">>
SeasonWord == <<"S", "e", "a", "s", "o", "n">>

\* One row of the frame load_data returns.  The cell of a text column the
\* file lacks stays <<>>: the column does not exist.
LoadRow(cols, r) ==
    LET date == IF "date_added" \in cols THEN DateOf(r.date_added) ELSE <<>>
        country == FillNa(IF "country" \in cols THEN r.country
                          ELSE Cell(Unknown), Unknown)
        listed_in == FillNa(IF "listed_in" \in cols THEN r.listed_in
                            ELSE Cell(Empty), Empty)
        duration == FillNa(IF "duration" \in cols THEN r.duration
                           ELSE Cell(Empty), Empty)
        Filled(col) == IF col \in cols THEN Cell(FillNa(r[col], Unknown))
                       ELSE <<>>
    IN  [type |-> Filled("type"),
         title |-> Filled("title"),
         rating |-> Filled("rating"),
         director |-> Filled("director"),
         cast |-> Filled("cast"),
         year_added |-> IF date = <<>> THEN <<>> ELSE <<date[1].year>>,
         month_added |-> IF date = <<>> THEN <<>> ELSE <<date[1].month>>,
         release_year |-> IF "release_year" \in cols
                          THEN ReleaseYearOf(r.release_year) ELSE <<>>,
         country |-> country,
         listed_in |-> listed_in,
         country_list |-> CountryListOf(Cell(country)),
         genre_list |-> GenreListOf(Cell(listed_in)),
         duration |-> duration,
         movie_minutes |-> ExtractInt(duration, MinWord),
         seasons |-> ExtractInt(duration, SeasonWord)]

load_data(r) == [i \in DOMAIN r.rows |-> LoadRow(r.cols, r.rows[i])]

load_data_raises(r) == "release_year" \in r.cols /\ Int64Raises(r.rows)

(***************************************************************************)
(* Frames and aggregation.  A subset of df is the ascending sequence of    *)
(* the numbers of its rows.                                                *)
(***************************************************************************)
Rows(d) == [i \in DOMAIN d |-> i]

\* frame[mask]: the rows of sub the mask marks, in order.  A mask is the set
\* of the row numbers it holds True for.
Where(sub, mask) == SelectSeq(sub, LAMBDA i : i \in mask)

\* Between with the upper end left out, as inclusive="left" would.
BetweenExclusive(cell, range) ==
    cell # <<>> /\ range[1] <= cell[1] /\ cell[1] < range[2]

\* Series.between(lo, hi, inclusive="both") of one cell; a missing value is
\* never between.
Between(cell, range) ==
    cell # <<>> /\ range[1] <= cell[1] /\ cell[1] <= range[2]

\* frame.explode(col)[col]: one entry per element, a missing one (<<>>) for
\* an empty list.
RECURSIVE Explode(_, _, _)
Explode(d, sub, col) ==
    IF sub = <<>> THEN <<>>
    ELSE LET lst == d[Head(sub)][col]
         IN  (IF lst = <<>> THEN <<NaN>>
              ELSE [i \in DOMAIN lst |-> Cell(lst[i])])
             \o Explode(d, Tail(sub), col)

\* Series.replace(old, new), new a cell.
Replace(s, old, new) ==
    [i \in DOMAIN s |-> IF s[i] = Cell(old) THEN new ELSE s[i]]

\* Series.dropna()
DropNa(s) == SelectSeq(s, LAMBDA c : c # NaN)

Count(s, v) == Cardinality({i \in DOMAIN s : s[i] = Cell(v)})

\* The values of s, each once, in the order they first occur.
RECURSIVE FirstSeen(_)
FirstSeen(s) ==
    IF s = <<>> THEN <<>>
    ELSE LET rest == FirstSeen(SubSeq(s, 1, Len(s) - 1))
             v == s[Len(s)]
         IN  IF v \in Range(rest) THEN rest ELSE Append(rest, v)

\* A stable sort of the entries by falling count.
RECURSIVE ByCount(_)
ByCount(entries) ==
    IF entries = <<>> THEN <<>>
    ELSE LET top == CHOOSE i \in DOMAIN entries :
                      /\ \A j \in DOMAIN entries : entries[j].n <= entries[i].n
                      /\ \A j \in 1..(i - 1) : entries[j].n < entries[i].n
         IN  <<entries[top]>>
             \o ByCount(SubSeq(entries, 1, top - 1)
                        \o SubSeq(entries, top + 1, Len(entries)))

\* Series.value_counts(): the present values with their counts, the most
\* frequent first, ties in the order of first occurrence.
ValueCounts(s) ==
    LET seen == FirstSeen(DropNa(s))
    IN  ByCount([i \in DOMAIN seen |-> [v |-> seen[i][1], n |-> Count(s, seen[i][1])]])

\* .index.tolist() and [:n]
Index(counts) == [i \in DOMAIN counts |-> counts[i].v]
head(s, n) == SubSeq(s, 1, IF Len(s) < n THEN Len(s) ELSE n)

Total(counts) ==
    LET Sum[i \in 0..Len(counts)] ==
            IF i = 0 THEN 0 ELSE Sum[i - 1] + counts[i].n
    IN  Sum[Len(counts)]

\* The subsets of at most n of the options.
Picks(options, n) == {S \in SUBSET options : Cardinality(S) <= n}

Min(S) == CHOOSE x \in S : \A y \in S : x <= y
Max(S) == CHOOSE x \in S : \A y \in S : y <= x

(***************************************************************************)
(* The script.                                                             *)
(***************************************************************************)
\* The slider's range when no row has a release year (lines 107 and 108).
DefaultYmin == 1950
DefaultYmax == 2021
\* The most options a multiselect offers (lines 130 and 140).
OptionCap == 100
\* The genres the Overview chart keeps (line 233).
TopGenres == 15

\* The slider stops the user is let to choose: the ends of the range and the
\* years of the input rows.
InputYears == {2020, 2021}
SliderStops(lo, hi) == {lo, hi} \cup (InputYears \cap lo..hi)

\* The texts typed into the Search box.
Queries == {<<>>, <<" ", "A">>, <<".">>, <<"(">>}

\* No exception; an exception with the line that raises it.
NoError == [name |-> "", line |-> 0]
Error(e, l) == [name |-> e, line |-> l]

Init ==
    /\ raw \in {[cols |-> AllCols, rows |-> t] : t \in SeqsUpTo(RawRows, MaxRows)}
           \cup {[cols |-> c, rows |-> t] :
                    c \in ColumnChoices, t \in {<<RowFilm, RowSeries>>, <<RowOdd>>}}
    /\ df = <<>>
    /\ pc = "load_data"
    /\ err = NoError
    /\ use_year_added = FALSE
    /\ ymin = 0
    /\ ymax = 0
    /\ year_range = <<0, 0>>
    /\ types = {}
    /\ type_sel = {}
    /\ base = <<>>
    /\ country_counts = <<>>
    /\ country_sel = {}
    /\ genre_counts = <<>>
    /\ genre_options = <<>>
    /\ genre_sel = {}
    /\ rating_options = {}
    /\ rating_sel = {}
    /\ query = <<>>
    /\ f = <<>>
    /\ f_columns = TRUE
    /\ top_genre = <<>>
    /\ gcounts = <<>>

\* An exception ends the run.
Raise(e) == pc' = "crashed" /\ err' = e

\* Lines 41-92: df = load_data().
LoadData ==
    /\ pc = "load_data"
    /\ IF load_data_raises(raw)
       THEN Raise(Error("TypeError", 61)) /\ UNCHANGED df
       ELSE df' = load_data(raw) /\ pc' = "time_base" /\ UNCHANGED err
    /\ UNCHANGED <<raw, use_year_added, ymin, ymax, year_range, types,
                   type_sel, base, country_counts, country_sel, genre_counts,
                   genre_options, genre_sel, rating_options, rating_sel,
                   query, f, f_columns, top_genre, gcounts>>

\* Line 102.
UseYearAdded(d) == \E i \in DOMAIN d : d[i].year_added # <<>>

Present(d, col) == {d[i][col][1] : i \in {j \in DOMAIN d : d[j][col] # <<>>}}

\* Lines 101-111: the time base, the slider's range and the user's range.
TimeBase ==
    /\ pc = "time_base"
    /\ use_year_added' = UseYearAdded(df)
    /\ IF ~UseYearAdded(df) /\ "release_year" \notin raw.cols
       THEN Raise(Error("KeyError", 107)) /\ UNCHANGED <<ymin, ymax, year_range>>
       ELSE /\ LET col == IF UseYearAdded(df) THEN "year_added"
                          ELSE "release_year"
                   years == Present(df, col)
               IN  /\ ymin' = IF years # {} THEN Min(years) ELSE DefaultYmin
                   /\ ymax' = IF years # {} THEN Max(years) ELSE DefaultYmax
            /\ \E lo, hi \in SliderStops(ymin', ymax') :
                   lo <= hi /\ year_range' = <<lo, hi>>
            /\ pc' = "types"
            /\ UNCHANGED err
    /\ UNCHANGED <<raw, df, types, type_sel, base, country_counts,
                   country_sel, genre_counts, genre_options, genre_sel,
                   rating_options, rating_sel, query, f, f_columns,
                   top_genre, gcounts>>

\* sorted(df[col].dropna().unique().tolist()) if col in df.columns else []
Options(cols, d, col) == IF col \in cols THEN Present(d, col) ELSE {}

\* Lines 113-114: the Type multiselect (every type is ticked by default).
TypeSelect ==
    /\ pc = "types"
    /\ types' = Options(raw.cols, df, "type")
    /\ type_sel' \in SUBSET types'
    /\ pc' = "base"
    /\ UNCHANGED <<raw, df, err, use_year_added, ymin, ymax, year_range,
                   base, country_counts, country_sel, genre_counts,
                   genre_options, genre_sel, rating_options, rating_sel,
                   query, f, f_columns, top_genre, gcounts>>

\* Lines 118-119 and 155-156: the type filter.
TypeFilter(d, sub, sel) ==
    IF sel # {} THEN Where(sub, {i \in Range(sub) : d[i].type[1] \in sel})
    ELSE sub

\* Lines 120-123 and 157-160: the time filter.
TimeFilter(d, sub, use, range) ==
    IF use THEN Where(sub, {i \in Range(sub) : Between(d[i].year_added, range)})
    ELSE Where(sub, {i \in Range(sub) : Between(d[i].release_year, range)})

\* Lines 116-123.
BaseOf(d, sel, use, range) == TimeFilter(d, TypeFilter(d, Rows(d), sel), use, range)

BuildBase ==
    /\ pc = "base"
    /\ base' = BaseOf(df, type_sel, use_year_added, year_range)
    /\ pc' = "countries"
    /\ UNCHANGED <<raw, df, err, use_year_added, ymin, ymax, year_range,
                   types, type_sel, country_counts, country_sel,
                   genre_counts, genre_options, genre_sel, rating_options,
                   rating_sel, query, f, f_columns, top_genre, gcounts>>

\* OptionCounts taken over every row of the frame instead of the subset.
OptionCountsAllRows(d, sub, col) ==
    ValueCounts(Replace(Explode(d, Rows(d), col), Empty, Cell(Unknown)))

\* OptionCounts with the empty strings dropped, as lines 231-233 drop them.
OptionCountsDropEmpty(d, sub, col) ==
    ValueCounts(DropNa(Replace(Explode(d, sub, col), Empty, NaN)))

\* Lines 125-127 and 134-136:
\* sub.explode(col)[col].replace("", "Unknown").value_counts()
OptionCounts(d, sub, col) ==
    ValueCounts(Replace(Explode(d, sub, col), Empty, Cell(Unknown)))

\* Lines 125-132: the Countries multiselect.
CountryOptions(counts) == head(Index(counts), OptionCap)

Countries ==
    /\ pc = "countries"
    /\ country_counts' = OptionCounts(df, base, "country_list")
    /\ country_sel' \in Picks(Range(CountryOptions(country_counts')), MaxSel)
    /\ pc' = "genres"
    /\ UNCHANGED <<raw, df, err, use_year_added, ymin, ymax, year_range,
                   types, type_sel, base, genre_counts, genre_options,
                   genre_sel, rating_options, rating_sel, query, f,
                   f_columns, top_genre, gcounts>>

\* Line 137.
GenreOptions(counts) ==
    SelectSeq(Index(counts), LAMBDA g : g # Empty /\ g # Unknown)

\* Lines 134-142: the Genres multiselect.
Genres ==
    /\ pc = "genres"
    /\ genre_counts' = OptionCounts(df, base, "genre_list")
    /\ genre_options' = GenreOptions(genre_counts')
    /\ genre_sel' \in Picks(Range(head(genre_options', OptionCap)), MaxSel)
    /\ pc' = "ratings"
    /\ UNCHANGED <<raw, df, err, use_year_added, ymin, ymax, year_range,
                   types, type_sel, base, country_counts, country_sel,
                   rating_options, rating_sel, query, f, f_columns,
                   top_genre, gcounts>>

\* Line 144: the ratings of the whole frame d, not of the base subset sub.
RatingOptions(cols, d, sub) == Options(cols, d, "rating")

\* Lines 144-145: the Ratings multiselect.
Ratings ==
    /\ pc = "ratings"
    /\ rating_options' = RatingOptions(raw.cols, df, base)
    /\ rating_sel' \in Picks(rating_options', MaxSel)
    /\ pc' = "search"
    /\ UNCHANGED <<raw, df, err, use_year_added, ymin, ymax, year_range,
                   types, type_sel, base, country_counts, country_sel,
                   genre_counts, genre_options, genre_sel, query, f,
                   f_columns, top_genre, gcounts>>

\* Line 147: the Search box.
Search ==
    /\ pc = "search"
    /\ query' \in Queries
    /\ pc' = "filter"
    /\ UNCHANGED <<raw, df, err, use_year_added, ymin, ymax, year_range,
                   types, type_sel, base, country_counts, country_sel,
                   genre_counts, genre_options, genre_sel, rating_options,
                   rating_sel, f, f_columns, top_genre, gcounts>>

(***************************************************************************)
(* The filter application.                                                 *)
(***************************************************************************)
\* re.compile(q) raises re.error on an opening parenthesis that is never
\* closed (the texts of the model hold no closing one).
RegexRaises(q) == "(" \in Range(q)

\* re.search(q, t) for a pattern of ordinary characters and dots: a dot
\* matches any character.
RegexSearch(q, t) ==
    \E i \in 0..(Len(t) - Len(q)) :
        \A k \in DOMAIN q : q[k] = "." \/ q[k] = t[i + k]

\* Series.str.contains(q, na=False) of one value: regex=True is the default.
StrContains(t, q) == RegexSearch(q, t)

\* frame[frame[col].apply(test)].  Series.apply of an empty object column
\* returns an empty object column, which DataFrame.__getitem__ does not take
\* for a boolean mask (lib.is_bool_array is False of an empty array) but for
\* an empty list of column labels: the result keeps no column.
ApplyMask(fr, mask) ==
    IF fr.rows = <<>> THEN [fr EXCEPT !.columns = FALSE]
    ELSE [fr EXCEPT !.rows = Where(fr.rows, mask)]

\* Lines 162-163.
CountryFilter(d, fr, sel) ==
    IF sel # {}
    THEN ApplyMask(fr, {i \in Range(fr.rows) :
                           \E c \in sel : c \in Range(d[i].country_list)})
    ELSE fr

\* Lines 164-165.
GenreFilter(d, fr, sel) ==
    IF sel # {} /\ fr.err = NoError
    THEN IF ~fr.columns THEN [fr EXCEPT !.err = Error("KeyError", 165)]
         ELSE ApplyMask(fr, {i \in Range(fr.rows) :
                                \E g \in sel : g \in Range(d[i].genre_list)})
    ELSE fr

\* Lines 166-167.
RatingFilter(cols, d, fr, sel) ==
    IF sel # {} /\ fr.err = NoError /\ "rating" \in cols /\ fr.columns
    THEN [fr EXCEPT !.rows =
              Where(fr.rows, {i \in Range(fr.rows) : d[i].rating[1] \in sel})]
    ELSE fr

\* Lines 172-174: the mask of one row.
QueryMatch(r, q) ==
    \/ StrContains(Lower(r.title[1]), q)
    \/ StrContains(Lower(r.cast[1]), q)
    \/ StrContains(Lower(r.director[1]), q)

\* Lines 169-175.  The three columns are read in turn, each pattern compiled
\* as its column is reached.
QueryFilter(cols, d, fr, text) ==
    IF Strip(text) # <<>> /\ fr.err = NoError
    THEN LET q == Strip(Lower(text))
         IN  IF ~fr.columns \/ "title" \notin cols
             THEN [fr EXCEPT !.err = Error("KeyError", 172)]
             ELSE IF RegexRaises(q)
             THEN [fr EXCEPT !.err = Error("re.error", 172)]
             ELSE IF "cast" \notin cols
             THEN [fr EXCEPT !.err = Error("KeyError", 173)]
             ELSE IF "director" \notin cols
             THEN [fr EXCEPT !.err = Error("KeyError", 174)]
             ELSE [fr EXCEPT !.rows =
                       Where(fr.rows, {i \in Range(fr.rows) : QueryMatch(d[i], q)})]
    ELSE fr

\* Lines 153-175.
FilterOf(cols, d, use, range, tsel, csel, gsel, rsel, text) ==
    LET timed == [rows |-> TimeFilter(d, TypeFilter(d, Rows(d), tsel), use, range),
                  columns |-> TRUE, err |-> NoError]
    IN  QueryFilter(cols, d,
            RatingFilter(cols, d,
                GenreFilter(d, CountryFilter(d, timed, csel), gsel), rsel), text)

ApplyFilter ==
    /\ pc = "filter"
    /\ LET fr == FilterOf(raw.cols, df, use_year_added, year_range, type_sel,
                          country_sel, genre_sel, rating_sel, query)
       IN  IF fr.err # NoError
           THEN Raise(fr.err) /\ UNCHANGED <<f, f_columns>>
           ELSE /\ f' = fr.rows
                /\ f_columns' = fr.columns
                /\ pc' = "kpis"
                /\ UNCHANGED err
    /\ UNCHANGED <<raw, df, use_year_added, ymin, ymax, year_range, types,
                   type_sel, base, country_counts, country_sel, genre_counts,
                   genre_options, genre_sel, rating_options, rating_sel,
                   query, top_genre, gcounts>>

(***************************************************************************)
(* The Top Genre KPI and the Overview tab's genre aggregation.             *)
(***************************************************************************)
\* The placeholder of line 201 (an em dash there).
Dash == <<"-">>

\* Lines 197-199 and 231-233:
\* sub.explode("genre_list")["genre_list"].replace("", np.nan).dropna()
\*     .value_counts()
GenreCounts(d, sub) ==
    ValueCounts(DropNa(Replace(Explode(d, sub, "genre_list"), Empty, NaN)))

\* Line 200: len(f) and f["genre_list"].astype(bool).any()
HasGenres(d, sub) ==
    Len(sub) # 0 /\ \E k \in DOMAIN sub : d[sub[k]].genre_list # <<>>

\* Lines 196-202: <<text>>, or <<>> when idxmax raises ValueError on an
\* empty count.
TopGenreOf(d, sub) ==
    IF HasGenres(d, sub)
    THEN LET counts == GenreCounts(d, sub)
         IN  IF counts = <<>> THEN <<>> ELSE <<counts[1].v>>
    ELSE <<Dash>>

TopGenre ==
    /\ pc = "kpis"
    /\ IF TopGenreOf(df, f) = <<>>
       THEN Raise(Error("ValueError", 199)) /\ UNCHANGED top_genre
       ELSE top_genre' = TopGenreOf(df, f) /\ pc' = "overview" /\ UNCHANGED err
    /\ UNCHANGED <<raw, df, use_year_added, ymin, ymax, year_range, types,
                   type_sel, base, country_counts, country_sel, genre_counts,
                   genre_options, genre_sel, rating_options, rating_sel,
                   query, f, f_columns, gcounts>>

\* Lines 229-235: gcounts; the other tabs are not modelled.
Overview ==
    /\ pc = "overview"
    /\ IF ~f_columns
       THEN Raise(Error("KeyError", 231)) /\ UNCHANGED gcounts
       ELSE /\ gcounts' = head(GenreCounts(df, f), TopGenres)
            /\ pc' = "tabs"
            /\ UNCHANGED err
    /\ UNCHANGED <<raw, df, use_year_added, ymin, ymax, year_range, types,
                   type_sel, base, country_counts, country_sel, genre_counts,
                   genre_options, genre_sel, rating_options, rating_sel,
                   query, f, f_columns, top_genre>>

Next ==
    \/ LoadData
    \/ TimeBase
    \/ TypeSelect
    \/ BuildBase
    \/ Countries
    \/ Genres
    \/ Ratings
    \/ Search
    \/ ApplyFilter
    \/ TopGenre
    \/ Overview

Spec == Init /\ [][Next]_vars

(***************************************************************************)
(* Where the run stands.                                                   *)
(***************************************************************************)
CrashedAt(lo, hi) == pc = "crashed" /\ err.line \in lo..hi

\* load_data has returned.
Loaded == pc # "load_data" /\ ~CrashedAt(41, 92)
\* The three option lists have been computed and the selections made; the
\* lists are looked at then, and again when the run is through the Overview
\* tab.
OptionsShown == pc \in {"search", "tabs"}
\* The filter application has been run, and has completed.
FilterRan == pc \in {"kpis", "overview", "tabs"} \/ CrashedAt(153, 381)
Filtered == pc \in {"kpis", "overview", "tabs"} \/ CrashedAt(177, 381)
\* The Top Genre KPI has been run, and has completed.
TopGenreRan == pc \in {"overview", "tabs"} \/ CrashedAt(195, 381)
TopGenreDone == pc \in {"overview", "tabs"} \/ CrashedAt(207, 381)

(***************************************************************************)
(* The claims' own terms, written from the specification's words.          *)
(***************************************************************************)
\* The time-base value of row i: year_added if any row of the full table has
\* one, release_year otherwise.
TimeValue(i) ==
    IF \E j \in DOMAIN df : df[j].year_added # <<>>
    THEN df[i].year_added ELSE df[i].release_year

InYearRange(i) ==
    /\ TimeValue(i) # <<>>
    /\ year_range[1] <= TimeValue(i)[1]
    /\ TimeValue(i)[1] <= year_range[2]

TypeAllowed(i) == type_sel = {} \/ df[i].type[1] \in type_sel

\* q occurs in t as a literal substring.
LiteralContains(t, q) ==
    \E i \in 0..(Len(t) - Len(q)) : SubSeq(t, i + 1, i + Len(q)) = q

LiteralMatch(i, q) ==
    \/ LiteralContains(Lower(df[i].title[1]), q)
    \/ LiteralContains(Lower(df[i].cast[1]), q)
    \/ LiteralContains(Lower(df[i].director[1]), q)

\* The rows passing the type and time filters.
BaseRows == SelectSeq(Rows(df), LAMBDA i : TypeAllowed(i) /\ InYearRange(i))

\* The (row, value) pairs of a multi-valued column over a subset.
RECURSIVE Pairs(_, _)
Pairs(sub, col) ==
    IF sub = <<>> THEN 0 ELSE Len(df[Head(sub)][col]) + Pairs(Tail(sub), col)

\* Those of the pairs whose value is in S.
RECURSIVE PairsIn(_, _, _)
PairsIn(sub, col, S) ==
    IF sub = <<>> THEN 0
    ELSE Cardinality({k \in DOMAIN df[Head(sub)][col] :
                         df[Head(sub)][col][k] \in S})
         + PairsIn(Tail(sub), col, S)

NonEmptyPairs(sub, col) == Pairs(sub, col) - PairsIn(sub, col, {Empty})

\* Row i counts towards the offered value v of a column: it holds v, or v is
\* "Unknown" and it holds an empty element.
Contributes(i, col, v) ==
    \/ v \in Range(df[i][col])
    \/ v = Unknown /\ Empty \in Range(df[i][col])

CountOf(counts, v) ==
    IF \E k \in DOMAIN counts : counts[k].v = v
    THEN counts[CHOOSE k \in DOMAIN counts : counts[k].v = v].n
    ELSE 0

(***************************************************************************)
(* The claims.                                                             *)
(***************************************************************************)
C1_Satisfies(i) ==
    /\ InYearRange(i)
    /\ TypeAllowed(i)
    /\ country_sel # {} => Range(df[i].country_list) \cap country_sel # {}
    /\ genre_sel # {} => Range(df[i].genre_list) \cap genre_sel # {}
    /\ rating_sel # {} => df[i].rating[1] \in rating_sel
    /\ query # <<>> => LiteralMatch(i, Strip(Lower(query)))

\* C1: for every table with all its columns and every filter state, the
\* filter application yields the final subset f, and f is exactly the rows
\* of the full table whose time-base value is present and in the year range,
\* whose type is in a non-empty type set, whose country_list and genre_list
\* meet a non-empty country and genre set, whose rating is in a non-empty
\* rating set and which a non-empty query matches.
C1_FinalSubsetExact ==
    (raw.cols = AllCols /\ FilterRan)
        => (Filtered /\ f = SelectSeq(Rows(df), C1_Satisfies))

\* The filter has run with nothing ticked but types, no query and the full
\* year range.
PassThroughCase ==
    /\ Filtered
    /\ country_sel = {} /\ genre_sel = {} /\ rating_sel = {}
    /\ query = <<>>
    /\ year_range = <<ymin, ymax>>

\* C2 as stated: with the country, genre and rating sets empty, the query
\* empty and the year range the full range [ymin, ymax], the final subset is
\* the type-filtered subset: no row whose type is in the type set is left
\* out.
C2_PassThroughAllRows ==
    PassThroughCase => f = SelectSeq(Rows(df), TypeAllowed)

\* C2 as amended: in that case the final subset is exactly the rows whose
\* type is in the type set (any type when the set is empty) and whose
\* time-base value is present; a row with an absent time-base value is left
\* out even by the full range.
C2_PassThroughPresentRows ==
    PassThroughCase
        => f = SelectSeq(Rows(df),
                         LAMBDA i : TypeAllowed(i) /\ TimeValue(i) # <<>>)

\* C2's case: the full range and a type set, over a table that has a row of
\* an allowed type without a time-base value and a row that passes.
C2_Witness ==
    /\ PassThroughCase
    /\ type_sel # {}
    /\ f # <<>>
    /\ \E i \in DOMAIN df : TypeAllowed(i) /\ TimeValue(i) = <<>>

\* C3: for every non-empty query q the rows that pass the query filter are
\* exactly those where the lower-cased, trimmed q is a literal substring of
\* the lower-cased title, cast or director (a missing one being "Unknown"),
\* and applying the query filter never raises.
C3_QueryIsLiteral ==
    (/\ raw.cols = AllCols
     /\ FilterRan
     /\ base # <<>>
     /\ query # <<>>
     /\ country_sel = {} /\ genre_sel = {} /\ rating_sel = {})
        => /\ Filtered
           /\ f = SelectSeq(base, LAMBDA i : LiteralMatch(i, Strip(Lower(query))))

\* C4: after load_data every row whose genre text is missing or empty has
\* the empty sequence for its genre_list.
C4_EmptyGenreList ==
    Loaded =>
        \A i \in DOMAIN df :
            ("listed_in" \notin raw.cols
                 \/ raw.rows[i].listed_in \in {NaN, Cell(Empty)})
                => df[i].genre_list = <<>>

\* C5: the Top Genre metric completes without error for every final subset
\* of a table with all its columns;
\* it is the placeholder when f has no row or no row of f has a genre text,
\* and a most frequent genre of f otherwise.
C5_TopGenreTotal ==
    (raw.cols = AllCols /\ TopGenreRan) =>
        /\ TopGenreDone
        /\ IF f = <<>> \/ \A k \in DOMAIN f : df[f[k]].listed_in = Empty
           THEN top_genre = <<Dash>>
           ELSE /\ top_genre # <<>>
                /\ \A k \in DOMAIN f :
                      \A g \in Range(df[f[k]].genre_list) :
                          g # Empty =>
                              PairsIn(f, "genre_list", {g})
                                <= PairsIn(f, "genre_list", {top_genre[1]})

\* The well-formed values of the input rows.
GoodDates == {RowFilm.date_added, RowSeries.date_added}
GoodYears == {Cell(Y2020), Cell(Y2021)}

\* C6: whatever the text of date_added, release_year and duration,
\* load_data returns without raising, keeps every row, and a derived field
\* is absent exactly on the rows whose source value is bad.
C6_LoadTolerant ==
    (raw.cols = AllCols /\ pc # "load_data") =>
        /\ Loaded
        /\ Len(df) = Len(raw.rows)
        /\ \A i \in DOMAIN df :
              /\ df[i].year_added # <<>> <=> raw.rows[i].date_added \in GoodDates
              /\ df[i].month_added # <<>> <=> raw.rows[i].date_added \in GoodDates
              /\ df[i].release_year # <<>> <=> raw.rows[i].release_year \in GoodYears
              /\ df[i].movie_minutes # <<>> <=> raw.rows[i].duration = RowFilm.duration
              /\ df[i].seasons # <<>> <=> raw.rows[i].duration = RowSeries.duration

\* C7: whichever optional columns the file lacks, and whatever the filter
\* state, load_data, the time-base choice, the base subset and the final
\* filter complete without error.
C7_MissingColumnsTolerated ==
    raw.cols # AllCols => ~CrashedAt(41, 175)

\* Every offered country and genre occurs in a row of the base subset, and
\* every country and genre of the base subset is offered (up to the cap).
CountriesFromBase ==
    LET offered == Range(CountryOptions(country_counts))
        held == UNION {Range(df[i].country_list) : i \in Range(BaseRows)}
    IN  /\ \A c \in offered : c \in held \/ (c = Unknown /\ Empty \in held)
        /\ Len(country_counts) <= OptionCap =>
              \A c \in held : (IF c = Empty THEN Unknown ELSE c) \in offered

GenresFromBase ==
    LET offered == Range(genre_options)
        held == UNION {Range(df[i].genre_list) : i \in Range(BaseRows)}
    IN  /\ offered \subseteq held
        /\ held \ {Empty, Unknown} \subseteq offered

\* C8 as stated: each of the three option lists is computed from the base
\* subset (the rows passing the type and time filters), so that every
\* offered country, genre and rating occurs in a row of the base subset and
\* no list depends on the country, genre or rating selection.
C8_OptionsFromBase ==
    OptionsShown =>
        /\ CountriesFromBase
        /\ GenresFromBase
        /\ \A r \in rating_options :
              \E k \in DOMAIN BaseRows : df[BaseRows[k]].rating = <<r>>

\* C8 as amended: the country and genre lists are computed from the base
\* subset (an offered "Unknown" country standing for an empty element too),
\* and the rating list from the full table: it offers exactly the ratings of
\* the rows of the full table, whatever the type set and the year range.
C8_CountryGenreFromBaseRatingFromAll ==
    OptionsShown =>
        /\ CountriesFromBase
        /\ GenresFromBase
        /\ rating_options = IF "rating" \in raw.cols
                            THEN {df[i].rating[1] : i \in DOMAIN df}
                            ELSE {}

\* C8's case: a base subset that is a proper, non-empty part of the table,
\* with countries and genres offered, a selection made, and a rating offered
\* that no row of the base subset has.
C8_Witness ==
    /\ OptionsShown
    /\ BaseRows # <<>> /\ Len(BaseRows) < Len(df)
    /\ country_counts # <<>> /\ genre_options # <<>>
    /\ country_sel # {}
    /\ \E r \in rating_options :
          \A k \in DOMAIN BaseRows : df[BaseRows[k]].rating # <<r>>

\* The aggregations over the base subset count every (row, value) pair, the
\* empty strings in the "Unknown" bucket.
BaseCountsTotal ==
    OptionsShown =>
        /\ Total(country_counts) = Pairs(base, "country_list")
        /\ Total(genre_counts) = Pairs(base, "genre_list")
        /\ CountOf(country_counts, Unknown)
              = PairsIn(base, "country_list", {Empty, Unknown})
        /\ CountOf(genre_counts, Unknown)
              = PairsIn(base, "genre_list", {Empty, Unknown})

\* C9 as stated: the counts of the country and genre aggregations over the
\* base subset and of the genre aggregation over the final subset each sum
\* to the number of (row, value) pairs after expansion, empty strings
\* counted as "Unknown" rather than dropped.
C9_CountsSumToPairs ==
    /\ BaseCountsTotal
    /\ pc = "tabs" => Total(gcounts) = Pairs(f, "genre_list")

\* C9 as amended: that holds of the country and genre aggregations over the
\* base subset; the genre aggregation over the final subset drops the empty
\* strings, so that its counts sum to the number of pairs whose value is not
\* empty (when it holds fewer than 15 genres, so that none was cut).
C9_FinalCountsDropEmpty ==
    /\ BaseCountsTotal
    /\ (pc = "tabs" /\ Len(gcounts) < TopGenres)
           => Total(gcounts) = NonEmptyPairs(f, "genre_list")

\* C9's case: the run is through the Overview tab, the base subset holds an
\* empty country element, and the final subset holds both an empty genre
\* element and a genre.
C9_Witness ==
    /\ pc = "tabs"
    /\ \E k \in DOMAIN base : Empty \in Range(df[base[k]].country_list)
    /\ \E k \in DOMAIN f : Empty \in Range(df[f[k]].genre_list)
    /\ gcounts # <<>>

\* C10: an offered country, selected alone, yields a non-empty final subset:
\* exactly the rows of the base subset that count towards it in
\* country_counts.
C10_OfferedCountrySelects ==
    (/\ raw.cols = AllCols
     /\ FilterRan
     /\ Cardinality(country_sel) = 1
     /\ genre_sel = {} /\ rating_sel = {} /\ query = <<>>)
        => /\ Filtered
           /\ f # <<>>
           /\ f = SelectSeq(base, LAMBDA i :
                     \E c \in country_sel : Contributes(i, "country_list", c))

=============================================================================
